---- MODULE Spec2Model ----
(***************************************************************************)
(* Model of linkedin_scheduler.py: the in-memory credential (token_info,   *)
(* user_urn), the OAuth2 authorization flow, the publisher                 *)
(* post_linkedin_update and the date-triggered background scheduler.       *)
(*                                                                         *)
(* Time is counted in ticks of 1/TicksPerSecond second.  `now' is the UTC  *)
(* instant; the local wall clock reads now + tz_offset.  The scheduler     *)
(* thread wakes when a job is due, so the clock does not advance while a   *)
(* running scheduler has a due job or the executor has a job in flight.    *)
(***************************************************************************)
EXTENDS Integers, Sequences, FiniteSets, TLC

VARIABLES CLIENT_ID, CLIENT_SECRET, token_info, user_urn,
          sched_state, jobs, inflight, missed,
          now, tz_offset, submitted, calls, flows, errors

vars == <<CLIENT_ID, CLIENT_SECRET, token_info, user_urn,
          sched_state, jobs, inflight, missed,
          now, tz_offset, submitted, calls, flows, errors>>

credVars == <<CLIENT_ID, CLIENT_SECRET, token_info, user_urn>>
schedVars == <<sched_state, jobs, inflight, missed, submitted>>

----------------------------------------------------------------------------
(* Bounds *)

TicksPerSecond == 2
MaxTime == 3
MaxSubmits == 2
TzShift == 3
MaxFlows == 1
MaxCalls == 2
MaxErrors == 1

----------------------------------------------------------------------------
(* Values *)

\* Python None, as read by os.getenv for an unset variable
None == "None"

\* `not x' for a string-or-None value
Falsy(v) == v \in {None, ""}

Texts == {"hello", "hi"}

\* text_content arguments of direct publisher calls, the empty text included
CallTexts == Texts \cup {""}

\* post_time arguments that are not datetime objects
NonDatetimes == {"2030-01-01 09:00"}

\* post_time arguments: wall-clock reading and whether tzinfo (UTC) is set
PostTimes == [wall : 0..MaxTime, aware : BOOLEAN]

\* the scheduler's default misfire_grace_time, in seconds
MisfireGrace == 1

\* final HTTP statuses the content endpoint may answer with
Statuses == {200, 304, 401}

\* what linkedin.post(...) can do once it is called
Outcomes == [kind : {"response"}, status : Statuses]
              \cup {[kind |-> "transport_error", status |-> 0]}

\* the answers drawn for the requests of scheduled firings: a success, an HTTP
\* error, a transport error
RunnerOutcomes == {o \in Outcomes : o.kind = "transport_error" \/ o.status \in {200, 401}}

NoOutcome == [kind |-> "not_sent", status |-> 0]

----------------------------------------------------------------------------
(* Pure functions *)

\* int(x) for x counted in ticks: whole seconds, truncated toward zero
IntSeconds(t) == IF t >= 0 THEN t \div TicksPerSecond
                 ELSE 0 - ((0 - t) \div TicksPerSecond)

\* the POSIX time, in ticks, of the instant at which the clock starts
Origin == TicksPerSecond * (TzShift + 1)

\* post_time.timestamp(): a naive datetime is read as local time
Timestamp(p, off) == Origin + (IF p.aware THEN p.wall ELSE p.wall - off)

\* hash(text_content)
Hash(text) == CASE text = "hello" -> 11
                [] text = "hi" -> 22
                [] OTHER -> 0

\* an identifier drawn per submission instead of derived from (time, text)
JobId_PerSubmission(p, text, off, n) == <<n, Hash(text)>>

\* job_id = f"linkedin_post_{int(post_time.timestamp())}_{hash(text_content)}"
JobId(p, text, off, n) == <<IntSeconds(Timestamp(p, off)), Hash(text)>>

\* run_date=post_time under BackgroundScheduler(timezone="UTC"):
\* a naive run_date is localized as UTC, an aware one keeps its instant
RunDate(p) == p.wall

\* post_time < datetime.now(post_time.tzinfo or None)
PastCheck(p, t, off) == IF p.aware THEN p.wall < t ELSE p.wall < t + off

\* response.raise_for_status(): raises for 4xx and 5xx
RaisesForStatus(status) == status >= 400 /\ status < 600

\* guard of post_linkedin_update on the token dict
TokenGuardFails(ti) == DOMAIN ti = {} \/ "access_token" \notin DOMAIN ti

\* guard of post_linkedin_update on the actor URN
UrnGuardFails(urn) == Falsy(urn)

\* a publisher that skips a text it has already posted
PostLinkedinUpdate_Dedup(text, ti, urn, outcome) ==
  IF TokenGuardFails(ti) \/ UrnGuardFails(urn)
    THEN [sent |-> FALSE, result |-> FALSE, outcome |-> NoOutcome]
  ELSE IF \E i \in DOMAIN calls : calls[i].text = text /\ calls[i].sent
    THEN [sent |-> FALSE, result |-> TRUE, outcome |-> NoOutcome]
  ELSE [sent |-> TRUE,
        result |-> (outcome.kind = "response" /\ ~RaisesForStatus(outcome.status)),
        outcome |-> outcome]

\* post_linkedin_update(text_content): does it reach linkedin.post (one request),
\* and what it returns
PostLinkedinUpdate(text, ti, urn, outcome) ==
  IF TokenGuardFails(ti) THEN [sent |-> FALSE, result |-> FALSE, outcome |-> NoOutcome]
  ELSE IF UrnGuardFails(urn) THEN [sent |-> FALSE, result |-> FALSE, outcome |-> NoOutcome]
  ELSE [sent |-> TRUE,
        result |-> (outcome.kind = "response" /\ ~RaisesForStatus(outcome.status)),
        outcome |-> outcome]

\* the outcomes to enumerate for a call: one dummy when nothing is sent
OutcomesFor(ti, urn, pool) ==
  IF TokenGuardFails(ti) \/ UrnGuardFails(urn) THEN {NoOutcome} ELSE pool

\* one invocation of post_linkedin_update: by = the task that fired it (0 for a
\* direct call), the credential it read and what it did
CallRecord(by, text, ti, urn, outcome, t) ==
  [by |-> by, text |-> text, token |-> ti.access_token, urn |-> urn, at |-> t]
    @@ PostLinkedinUpdate(text, ti, urn, outcome)

----------------------------------------------------------------------------
(* Scheduler *)

\* scheduler.add_job(..., id=job_id, replace_existing=True)
AddJob(store, id, job) ==
  [i \in DOMAIN store \cup {id} |-> IF i = id THEN job ELSE store[i]]

\* a store that keeps a processed job for another attempt
RemoveJob_Keep(store, id) == store

\* the job store once a processed date job has no next run time
RemoveJob(store, id) == [i \in DOMAIN store \ {id} |-> store[i]]

\* the keyword arguments of a job: add_job is given args=[text_content] only
JobKwargs(job) == [k \in {} |-> ""]

\* job.kwargs.get('text_content', 'N/A')
ListedContent(job) ==
  IF "text_content" \in DOMAIN JobKwargs(job) THEN JobKwargs(job)["text_content"] ELSE "N/A"

\* list_scheduled_posts(): the entries it prints for scheduler.get_jobs()
ListScheduledPosts(store) ==
  {[id |-> id, run_time |-> store[id].run_date, content |-> ListedContent(store[id])] :
     id \in DOMAIN store}

DueJobs == {id \in DOMAIN jobs : jobs[id].run_date <= now}

\* run_job's misfire test: difference > grace_time
Misfired(run_date, t) == t - run_date > MisfireGrace * TicksPerSecond

\* scheduler.start()
Start ==
  /\ sched_state = "stopped"
  /\ sched_state' = "running"
  /\ UNCHANGED <<credVars, jobs, inflight, missed, now, tz_offset, errors, submitted, calls, flows>>

\* schedule_linkedin_post(post_time, text_content) with a datetime post_time
Schedule(p, text) ==
  /\ sched_state = "running"
  /\ Len(submitted) < MaxSubmits
  /\ LET n == Len(submitted) + 1
         id == JobId(p, text, tz_offset, n)
         job == [run_date |-> RunDate(p), text |-> text, seq |-> n, post_time |-> p]
     IN /\ jobs' = AddJob(jobs, id, job)
        /\ submitted' = Append(submitted,
              [post_time |-> p, text |-> text, at |-> now,
               warned |-> PastCheck(p, now, tz_offset)])
  /\ UNCHANGED <<credVars, sched_state, inflight, missed, now, tz_offset, errors, calls, flows>>

\* a type check that logs the error but does not return
StoreAfterInvalid_NoReturn(store, v, text) ==
  AddJob(store, <<0, Hash(text)>>,
         [run_date |-> 0, text |-> text, seq |-> 0, post_time |-> [wall |-> 0, aware |-> FALSE]])

\* the job store after schedule_linkedin_post returned from its type check
StoreAfterInvalid(store, v, text) == store

\* schedule_linkedin_post(post_time, text_content) with a post_time that is not a
\* datetime: logs "Invalid post_time provided" and returns
ScheduleInvalid(v, text) ==
  /\ sched_state = "running"
  /\ errors < MaxErrors
  /\ errors' = errors + 1
  /\ jobs' = StoreAfterInvalid(jobs, v, text)
  /\ UNCHANGED <<credVars, sched_state, inflight, missed, now, tz_offset, submitted, calls, flows>>

\* a timer thread that keeps dispatching after shutdown
ProcessJob_NotStopped(id) ==
  /\ sched_state # "stopped"
  /\ id \in DueJobs
  /\ inflight' = inflight \cup {jobs[id]}
  /\ jobs' = RemoveJob(jobs, id)
  /\ UNCHANGED <<credVars, sched_state, missed, now, tz_offset, errors, submitted, calls, flows>>

\* scheduler thread: a due job is handed to the executor and leaves the store
ProcessJob(id) ==
  /\ sched_state = "running"
  /\ id \in DueJobs
  /\ inflight' = inflight \cup {jobs[id]}
  /\ jobs' = RemoveJob(jobs, id)
  /\ UNCHANGED <<credVars, sched_state, missed, now, tz_offset, errors, submitted, calls, flows>>

\* executor thread: misfire test, then post_linkedin_update(text)
RunJob(j) ==
  /\ j \in inflight
  /\ inflight' = inflight \ {j}
  /\ IF Misfired(j.run_date, now)
       THEN /\ missed' = missed \cup {j.seq}
            /\ UNCHANGED calls
       ELSE /\ \E o \in OutcomesFor(token_info, user_urn, RunnerOutcomes) :
                 calls' = Append(calls, CallRecord(j.seq, j.text, token_info, user_urn, o, now))
            /\ UNCHANGED missed
  /\ UNCHANGED <<credVars, sched_state, jobs, now, tz_offset, errors, submitted, flows>>

\* scheduler.shutdown() on KeyboardInterrupt / SystemExit
Shutdown ==
  /\ sched_state = "running"
  /\ sched_state' = "shutdown"
  /\ UNCHANGED <<credVars, jobs, inflight, missed, now, tz_offset, errors, submitted, calls, flows>>

\* the clock
Tick ==
  /\ now < MaxTime
  /\ inflight = {}
  /\ sched_state = "running" => DueJobs = {}
  /\ now' = now + 1
  /\ UNCHANGED <<credVars, schedVars, tz_offset, errors, calls, flows>>

----------------------------------------------------------------------------
(* Authorization flow *)

\* the anti-forgery state issued by linkedin.authorization_url in flow n
IssuedState(n) == "state_" \o ToString(n)

\* what the operator pastes at the input() prompt
Responses(n) ==
  {[text |-> "", state |-> "", code |-> FALSE]}
    \cup [text : {"url"}, state : {IssuedState(n), "forged"}, code : BOOLEAN]

\* a flow that hands fetch_token the bare code, so that no state is compared
FetchTokenRaises_CodeOnly(resp, n, exchange_ok) == ~resp.code \/ ~exchange_ok

\* linkedin.fetch_token(...) raises: the session rejects a callback whose state
\* is not the one it issued or that carries no code, or the exchange fails
FetchTokenRaises(resp, n, exchange_ok) ==
  resp.state # IssuedState(n) \/ ~resp.code \/ ~exchange_ok

\* the token dict fetch_token returns in flow n
FetchedToken(n) == [access_token |-> "token_" \o ToString(n)]

\* what get_profile_info can return: a profile with an id, one without, or None
Profiles == {"id", "no_id", "error"}

\* f"urn:li:person:{profile_info['id']}"
ProfileUrn(n) == "urn:li:person:" \o ToString(n)

\* token_info after the try block has run fetch_token successfully
TokenAfterFetch(ti, n) == FetchedToken(n)

\* user_urn after get_profile_info returned `profile'
UrnAfterProfile(urn, profile, n) == IF profile = "id" THEN ProfileUrn(n) ELSE urn

\* perform_oauth_flow(): the globals it leaves and what it returns
OAuthFlow(cid, secret, ti, urn, resp, exchange_ok, profile, n) ==
  IF Falsy(cid) \/ Falsy(secret)
    THEN [token_info |-> ti, user_urn |-> urn, result |-> FALSE,
          fetch_called |-> FALSE, looked_up |-> FALSE]
  ELSE IF resp.text = ""
    THEN [token_info |-> ti, user_urn |-> urn, result |-> FALSE,
          fetch_called |-> FALSE, looked_up |-> FALSE]
  ELSE IF FetchTokenRaises(resp, n, exchange_ok)
    THEN [token_info |-> ti, user_urn |-> urn, result |-> FALSE,
          fetch_called |-> TRUE, looked_up |-> FALSE]
  ELSE [token_info |-> TokenAfterFetch(ti, n),
        user_urn |-> UrnAfterProfile(urn, profile, n),
        result |-> (profile = "id"),
        fetch_called |-> TRUE, looked_up |-> TRUE]

PerformOAuthFlow(resp, exchange_ok, profile) ==
  /\ Len(flows) < MaxFlows
  /\ LET n == Len(flows) + 1
         r == OAuthFlow(CLIENT_ID, CLIENT_SECRET, token_info, user_urn,
                        resp, exchange_ok, profile, n)
     IN /\ token_info' = r.token_info
        /\ user_urn' = r.user_urn
        /\ flows' = Append(flows,
              [pre_token |-> token_info, pre_urn |-> user_urn, resp |-> resp,
               post_token |-> r.token_info, post_urn |-> r.user_urn,
               result |-> r.result, fetch_called |-> r.fetch_called,
               looked_up |-> r.looked_up])
  /\ UNCHANGED <<CLIENT_ID, CLIENT_SECRET, schedVars, now, tz_offset, errors, calls>>

\* a direct call post_linkedin_update(text_content)
PostCall(text) ==
  /\ Len(calls) < MaxCalls
  /\ \E o \in OutcomesFor(token_info, user_urn, Outcomes) :
       calls' = Append(calls, CallRecord(0, text, token_info, user_urn, o, now))
  /\ UNCHANGED <<credVars, schedVars, now, tz_offset, errors, flows>>

----------------------------------------------------------------------------
(* Specification of the scheduler *)

EmptyStore == [i \in {} |-> 0]

Init ==
  /\ CLIENT_ID = "client_id"
  /\ CLIENT_SECRET = "client_secret"
  /\ token_info \in {[access_token |-> "env_token"]}
  /\ user_urn = "urn_env"
  /\ sched_state = "stopped"
  /\ jobs = EmptyStore
  /\ inflight = {}
  /\ missed = {}
  /\ now = 0
  /\ tz_offset \in {0 - TzShift, 0, TzShift}
  /\ submitted = <<>>
  /\ calls = <<>>
  /\ flows = <<>>
  /\ errors = 0

Next ==
  \/ Start
  \/ \E p \in PostTimes, text \in Texts : Schedule(p, text)
  \/ \E v \in NonDatetimes, text \in Texts : ScheduleInvalid(v, text)
  \/ \E id \in DOMAIN jobs : ProcessJob(id)
  \/ \E j \in inflight : RunJob(j)
  \/ Shutdown
  \/ Tick

Spec == Init /\ [][Next]_vars

----------------------------------------------------------------------------
(* Specification of the credential: authorization flow and publisher calls *)

InitAuth ==
  /\ CLIENT_ID \in {None, "client_id"}
  /\ CLIENT_SECRET \in {None, "client_secret"}
  /\ token_info \in [access_token : {None, "", "env_token"}]
  /\ user_urn \in {None, "", "urn_env"}
  /\ sched_state = "stopped"
  /\ jobs = EmptyStore
  /\ inflight = {}
  /\ missed = {}
  /\ now = 0
  /\ tz_offset = 0
  /\ submitted = <<>>
  /\ calls = <<>>
  /\ flows = <<>>
  /\ errors = 0

NextAuth ==
  \/ \E resp \in Responses(Len(flows) + 1), exchange_ok \in BOOLEAN, profile \in Profiles :
        PerformOAuthFlow(resp, exchange_ok, profile)
  \/ \E text \in CallTexts : PostCall(text)

SpecAuth == InitAuth /\ [][NextAuth]_vars

----------------------------------------------------------------------------
(* Specification of the main control flow *)

\* a start-up test that only looks for the key, as post_linkedin_update does
NeedsAuth_KeyOnly == TokenGuardFails(token_info) \/ Falsy(user_urn)

\* not token_info.get('access_token') or not user_urn
NeedsAuth == Falsy(token_info.access_token) \/ Falsy(user_urn)

\* a main block that goes on after a failed authentication
CanStart_NoExit == IF flows = <<>> THEN ~NeedsAuth ELSE TRUE

\* control reaches scheduler.start(): the credential was loaded, or the flow
\* returned True; otherwise exit()
CanStart == IF flows = <<>> THEN ~NeedsAuth ELSE flows[Len(flows)].result

\* the authentication branch of the main block
MainAuth(resp, exchange_ok, profile) ==
  /\ sched_state = "stopped"
  /\ flows = <<>>
  /\ NeedsAuth
  /\ PerformOAuthFlow(resp, exchange_ok, profile)

MainStart == CanStart /\ Start

\* the example submissions: datetime.now() + timedelta(...), naive local time
MainSchedule(p, text) ==
  /\ ~p.aware
  /\ p.wall > now + tz_offset
  /\ Schedule(p, text)

InitMain ==
  /\ CLIENT_ID \in {None, "client_id"}
  /\ CLIENT_SECRET = "client_secret"
  /\ token_info \in [access_token : {None, "", "env_token"}]
  /\ user_urn \in {None, "urn_env"}
  /\ sched_state = "stopped"
  /\ jobs = EmptyStore
  /\ inflight = {}
  /\ missed = {}
  /\ now = 0
  /\ tz_offset = 0
  /\ submitted = <<>>
  /\ calls = <<>>
  /\ flows = <<>>
  /\ errors = 0

NextMain ==
  \/ \E resp \in Responses(1), exchange_ok \in BOOLEAN, profile \in Profiles :
        MainAuth(resp, exchange_ok, profile)
  \/ MainStart
  \/ \E p \in PostTimes, text \in Texts : MainSchedule(p, text)
  \/ \E id \in DOMAIN jobs : ProcessJob(id)
  \/ \E j \in inflight : RunJob(j)
  \/ Shutdown
  \/ Tick

SpecMain == InitMain /\ [][NextMain]_vars

----------------------------------------------------------------------------
(* Vocabulary of the properties *)

Subs == 1..Len(submitted)

\* the instant a post_time denotes, on the scale of `now'
InstantOf(p) == Timestamp(p, tz_offset) - Origin
Instant(k) == InstantOf(submitted[k].post_time)

\* the same trigger_time and the same text
SamePair(a, b) == InstantOf(a.post_time) = InstantOf(b.post_time) /\ a.text = b.text

\* the jobs in the store that carry the (post_time, text) of submission s
JobsOfPair(store, s) == {id \in DOMAIN store : SamePair(store[id], s)}

Pending(k) == \E id \in DOMAIN jobs : jobs[id].seq = k
InFlight(k) == \E j \in inflight : j.seq = k
FiredBy(k) == {i \in DOMAIN calls : calls[i].by = k}

\* submission k was later resubmitted with the identical pair
Resubmitted(k) == \E k2 \in Subs : k2 > k /\ SamePair(submitted[k2], submitted[k])

CredentialPresent(c) == ~Falsy(c.token) /\ ~Falsy(c.urn)

----------------------------------------------------------------------------
(* Properties of the scheduler, checked under Spec *)

\* C1: each call of schedule_linkedin_post leaves exactly one pending task with
\* the submitted trigger_time and text, however often the identical pair was
\* submitted before, and no pair is ever pending twice.
C1_IdempotentResubmission ==
  [][ /\ \A id1, id2 \in DOMAIN jobs' :
            SamePair(jobs'[id1], jobs'[id2]) => id1 = id2
      /\ Len(submitted') > Len(submitted) =>
            Cardinality(JobsOfPair(jobs', submitted'[Len(submitted')])) = 1 ]_vars

\* C1 witness: an identical pair has been submitted twice and is pending once
C1_Witness ==
  \E k1, k2 \in Subs :
    /\ k1 < k2
    /\ SamePair(submitted[k1], submitted[k2])
    /\ Cardinality(JobsOfPair(jobs, submitted[k2])) = 1
    /\ Pending(k2)

\* C2: a task scheduled with a future trigger_time (and not resubmitted) has,
\* once the clock of a running scheduler is past that trigger_time, been
\* published exactly once with its text and is no longer pending.
C2_FiredOnceAfterTrigger ==
  \A k \in Subs :
    ( /\ Instant(k) > submitted[k].at
      /\ ~Resubmitted(k)
      /\ sched_state = "running"
      /\ now > Instant(k) )
    => /\ Cardinality(FiredBy(k)) = 1
       /\ \A i \in FiredBy(k) : calls[i].text = submitted[k].text
       /\ ~Pending(k)

\* C3: a task the runner has fired is out of the pending set whatever the
\* publisher returned, and it is never published a second time.
C3_FiredIsTerminal ==
  \A i \in DOMAIN calls :
    calls[i].by > 0 =>
      /\ ~Pending(calls[i].by)
      /\ ~InFlight(calls[i].by)
      /\ FiredBy(calls[i].by) = {i}

\* C3 witness: a fired task whose request failed is gone while the runner runs
C3_Witness ==
  \E i \in DOMAIN calls :
    /\ calls[i].by > 0
    /\ calls[i].sent
    /\ ~calls[i].result
    /\ sched_state = "running"
    /\ ~Pending(calls[i].by)
    /\ now > calls[i].at

\* C4: a task submitted with a trigger_time already in the past gets the
\* past-due warning and is fired by the runner, never skipped.
C4_PastDueIsFired ==
  \A k \in Subs :
    Instant(k) < submitted[k].at =>
      /\ submitted[k].warned
      /\ k \notin missed

\* C5: no task is published before its trigger_time, and while the runner is
\* running a task leaves the pending set only by being fired (or by an
\* identical resubmission), so that every pending task gets fired.
C5_EveryTaskFiresNotEarly ==
  \A k \in Subs :
    /\ \A i \in FiredBy(k) : calls[i].at >= Instant(k)
    /\ (sched_state = "running" /\ ~Resubmitted(k))
         => (Pending(k) \/ InFlight(k) \/ FiredBy(k) # {})

----------------------------------------------------------------------------
(* Properties of the credential, checked under SpecAuth *)

C7_OneRequestSuccessIff2xx ==
  \A i \in DOMAIN calls :
    CredentialPresent(calls[i]) =>
      /\ calls[i].sent
      /\ calls[i].result <=>
           ( /\ calls[i].outcome.kind = "response"
             /\ calls[i].outcome.status >= 200
             /\ calls[i].outcome.status < 300 )

\* C8: perform_oauth_flow either succeeds and replaces both credential fields,
\* or fails and leaves both exactly as they were.
C8_CredentialNeverPartial ==
  \A n \in DOMAIN flows :
    \/ /\ flows[n].result
       /\ flows[n].post_token = FetchedToken(n)
       /\ flows[n].post_urn = ProfileUrn(n)
    \/ /\ ~flows[n].result
       /\ flows[n].post_token = flows[n].pre_token
       /\ flows[n].post_urn = flows[n].pre_urn

\* C9: a callback whose state is not the issued one, or that carries no
\* authorization code, makes perform_oauth_flow fail without an identity lookup
\* and with the credential unchanged.
C9_BadCallbackLeavesCredential ==
  \A n \in DOMAIN flows :
    (flows[n].resp.state # IssuedState(n) \/ ~flows[n].resp.code) =>
      /\ ~flows[n].result
      /\ ~flows[n].looked_up
      /\ flows[n].post_token = flows[n].pre_token
      /\ flows[n].post_urn = flows[n].pre_urn

\* C9 witness: a configured client, an existing credential and a pasted URL
\* with a code but a foreign state; the flow has handed it to fetch_token
C9_Witness ==
  \E n \in DOMAIN flows :
    /\ flows[n].resp.text = "url"
    /\ flows[n].resp.code
    /\ flows[n].resp.state # IssuedState(n)
    /\ flows[n].fetch_called
    /\ ~Falsy(flows[n].pre_token.access_token)
    /\ ~Falsy(flows[n].pre_urn)
    /\ token_info = flows[n].pre_token

\* C10: of two calls with the same text and a present credential, the later
\* one issues its own request; nothing is suppressed by the earlier call.
C10_PublishNotIdempotent ==
  \A i, j \in DOMAIN calls :
    ( /\ i < j
      /\ calls[i].text = calls[j].text
      /\ calls[i].sent
      /\ CredentialPresent(calls[j]) )
    => calls[j].sent

\* C10 witness: two requests have gone out for one text
C10_Witness ==
  \E i, j \in DOMAIN calls :
    /\ i < j
    /\ calls[i].text = calls[j].text
    /\ calls[i].sent
    /\ calls[j].sent
    /\ calls[i].by = 0
    /\ calls[j].by = 0

----------------------------------------------------------------------------
(* Shutdown, checked under Spec *)

\* the executor's worker thread runs every job handed to it, and
\* scheduler.shutdown() waits for it
FairSpec == Spec /\ WF_vars(\E j \in inflight : RunJob(j))

\* C11: once the scheduler is shut down no pending task is dispatched or
\* published any more, and a job in flight is not dropped: it stays in flight
\* until the executor has run it, which it eventually does.
C11_ShutdownDiscardsPending ==
  /\ ((sched_state = "shutdown" /\ inflight # {}) ~> (inflight = {}))
  /\ [][ sched_state = "shutdown" =>
        /\ \A id \in DOMAIN jobs :
              /\ id \in DOMAIN jobs'
              /\ jobs'[id] = jobs[id]
              /\ \A i \in DOMAIN calls' : calls'[i].by # jobs[id].seq
        /\ \A j \in inflight :
              \/ j \in inflight'
              \/ j.seq \in missed'
              \/ \E i \in DOMAIN calls' : calls'[i].by = j.seq ]_vars

\* C11 witness: after shutdown the clock has passed the trigger time of a task
\* that is still in the store, unpublished, while another task was published
C11_Witness ==
  /\ sched_state = "shutdown"
  /\ inflight = {}
  /\ \E id \in DOMAIN jobs :
       /\ jobs[id].run_date < now
       /\ submitted[jobs[id].seq].at < jobs[id].run_date
       /\ FiredBy(jobs[id].seq) = {}
  /\ \E i \in DOMAIN calls : calls[i].by > 0 /\ calls[i].sent

----------------------------------------------------------------------------
(* The type check of schedule_linkedin_post, checked under Spec *)

\* C17: a call with a post_time that is not a datetime changes neither the job
\* store nor the submissions; a call with a datetime leaves the job with the
\* derived identifier in the store, carrying the submitted time and text, and
\* leaves every other job as it was.
C17_InvalidPostTimeIsNoOp ==
  [][ /\ errors' > errors => (jobs' = jobs /\ submitted' = submitted)
      /\ Len(submitted') > Len(submitted) =>
           LET n == Len(submitted')
               s == submitted'[n]
               id == JobId(s.post_time, s.text, tz_offset, n)
           IN /\ id \in DOMAIN jobs'
              /\ jobs'[id].seq = n
              /\ jobs'[id].text = s.text
              /\ jobs'[id].post_time = s.post_time
              /\ DOMAIN jobs' = DOMAIN jobs \cup {id}
              /\ \A i \in DOMAIN jobs \ {id} : jobs'[i] = jobs[i] ]_vars

\* C17 witness: a call was rejected while a task was pending, and it is still
\* the only job in the store
C17_Witness ==
  /\ errors > 0
  /\ Len(submitted) = 1
  /\ Pending(1)
  /\ Cardinality(DOMAIN jobs) = 1

----------------------------------------------------------------------------
(* Further properties of the publisher and the scheduler *)

\* C12: a call of post_linkedin_update with empty text issues no request and
\* returns failure.
C12_EmptyTextRejected ==
  \A i \in DOMAIN calls :
    calls[i].text = "" => (~calls[i].sent /\ ~calls[i].result)

\* C15: while the scheduler runs, the listing has one entry per pending task,
\* showing its identifier, its trigger time and the text it was scheduled with,
\* and no entry for any other task.
C15_ListingShowsPayload ==
  sched_state = "running" =>
    /\ \A id \in DOMAIN jobs :
         \E e \in ListScheduledPosts(jobs) :
           /\ e.id = id
           /\ e.run_time = jobs[id].run_date
           /\ e.content = jobs[id].text
    /\ \A e \in ListScheduledPosts(jobs) : e.id \in DOMAIN jobs

\* C16: a submission replaces a pending task only if it has the same
\* trigger_time and the same text; every other pending task stays as it was.
C16_OnlyIdenticalPairReplaces ==
  [][ Len(submitted') > Len(submitted) =>
        \A id \in DOMAIN jobs :
          ~SamePair(jobs[id], submitted'[Len(submitted')]) =>
            (id \in DOMAIN jobs' /\ jobs'[id] = jobs[id]) ]_vars

\* C18: the past-due warning is logged exactly when the instant at which the
\* UTC scheduler treats the task as due lies before the instant of the call.
C18_WarningAgreesWithRunner ==
  \A k \in Subs :
    submitted[k].warned <=> (RunDate(submitted[k].post_time) < submitted[k].at)

----------------------------------------------------------------------------
(* Properties of the main control flow, checked under SpecMain *)

\* C13: the scheduler is started, and tasks are scheduled, only with both
\* credential fields non-empty; when the flow had to run, it ran before the
\* start and succeeded, and after a failed flow nothing is started or scheduled.
C13_RunnerStartsWithCredential ==
  /\ (sched_state # "stopped" \/ submitted # <<>>) =>
        /\ ~Falsy(token_info.access_token)
        /\ ~Falsy(user_urn)
        /\ flows # <<>> => flows[1].result
  /\ (flows # <<>> /\ ~flows[1].result) =>
        (sched_state = "stopped" /\ submitted = <<>> /\ calls = <<>>)

\* C13 witness: the credential was absent at startup, the flow succeeded, the
\* runner is running and a task is scheduled
C13_Witness ==
  /\ flows # <<>>
  /\ Falsy(flows[1].pre_token.access_token)
  /\ flows[1].result
  /\ sched_state = "running"
  /\ submitted # <<>>

\* C14: once the scheduler has been started the credential is never written,
\* and every firing reads the credential as it stands: the loaded pair, or the
\* token and the URN of the one successful flow together.
C14_CredentialWrittenBeforeStart ==
  [][ /\ sched_state # "stopped" =>
           (token_info' = token_info /\ user_urn' = user_urn)
      /\ \A i \in DOMAIN calls' :
           calls'[i].by > 0 =>
             /\ calls'[i].token = token_info'.access_token
             /\ calls'[i].urn = user_urn'
             /\ flows' # <<>> =>
                  /\ calls'[i].token = FetchedToken(1).access_token
                  /\ calls'[i].urn = ProfileUrn(1) ]_vars

\* C14 witness: a task has fired with the credential a flow obtained
C14_Witness ==
  \E i \in DOMAIN calls :
    /\ calls[i].by > 0
    /\ calls[i].sent
    /\ flows # <<>>
    /\ calls[i].token = FetchedToken(1).access_token
    /\ flows[1].pre_urn # user_urn

====
